---- MODULE Spec2Model ----
(***************************************************************************)
(* Model of the AI code assistant extension: the generation facade and its *)
(* provider adapters (src/src/services/aiProviderService.ts), the inline   *)
(* completion pipeline (src/src/providers/inlineCompletionProvider.ts) and *)
(* the explain command (src/src/extension.ts).                             *)
(*                                                                         *)
(* Strings the code computes with are sequences of one-character strings;  *)
(* names and messages that are only compared are TLA+ strings.  An         *)
(* optional setting is <<>> when unset and <<v>> when set to v.            *)
(***************************************************************************)
EXTENDS Integers, Sequences, FiniteSets, TLC

\* ------------------------------------------------------------------ bounds
MaxServiceCfgChanges == 1
MaxCmds == 2
MaxPending == 1
MaxCfgChanges == 1
MaxReq == 2
TickMs == 150
MaxPollCalls == 1
MaxAccepts == 2
MaxChatMsgs == 2
MaxClears == 1

\* ------------------------------------------------------- program constants
DefaultMaxTokens == 2048
DefaultTemperatureX10 == 1
maxAttempts == 30
DebounceMs == 300
CacheCapacity == 100
FingerprintChars == 500

\* ------------------------------------------------------------ small helpers
Range(s) == {s[i] : i \in DOMAIN s}

Get(opt, default) == IF opt = <<>> THEN default ELSE opt[1]

Truthy(opt) == opt # <<>> /\ opt[1] # ""

\* ------------------------------------------------------------------ strings
WhiteSpace == {" ", "\t", "\n", "\r"}

WordChars ==
    {"a", "b", "c", "d", "e", "f", "g", "h", "i", "j", "k", "l", "m", "n", "o", "p", "q",
     "r", "s", "t", "u", "v", "w", "x", "y", "z", "A", "B", "C", "D", "E", "F", "G", "H",
     "I", "J", "K", "L", "M", "N", "O", "P", "Q", "R", "S", "T", "U", "V", "W", "X", "Y",
     "Z", "0", "1", "2", "3", "4", "5", "6", "7", "8", "9", "_"}

\* the characters of a string, one per element
Chars(str) == [i \in 1..Len(str) |-> SubSeq(str, i, i)]

UpperCase == Chars("ABCDEFGHIJKLMNOPQRSTUVWXYZ")

LowerCase == Chars("abcdefghijklmnopqrstuvwxyz")

ToLowerChar(ch) ==
    IF \E i \in 1..26 : UpperCase[i] = ch
    THEN LowerCase[CHOOSE i \in 1..26 : UpperCase[i] = ch]
    ELSE ch

toLowerCase(s) == [i \in DOMAIN s |-> ToLowerChar(s[i])]

RECURSIVE trimStart(_)
trimStart(s) ==
    IF s # <<>> /\ Head(s) \in WhiteSpace THEN trimStart(Tail(s)) ELSE s

RECURSIVE trimEnd(_)
trimEnd(s) ==
    IF s # <<>> /\ s[Len(s)] \in WhiteSpace THEN trimEnd(SubSeq(s, 1, Len(s) - 1)) ELSE s

trim(s) == trimEnd(trimStart(s))

startsWith(s, p) == Len(p) <= Len(s) /\ SubSeq(s, 1, Len(p)) = p

substring(s, n) == SubSeq(s, n + 1, Len(s))

\* s.slice(-n)
sliceLast(s, n) == IF Len(s) <= n THEN s ELSE SubSeq(s, Len(s) - n + 1, Len(s))

\* least index >= from at which p occurs in s, or 0
indexOf(s, p, from) ==
    LET hits == {i \in from..(Len(s) - Len(p) + 1) : SubSeq(s, i, i + Len(p) - 1) = p}
    IN  IF hits = {} THEN 0 ELSE CHOOSE i \in hits : \A j \in hits : i <= j

includes(s, p) == indexOf(s, p, 1) # 0

RECURSIVE split(_, _)
split(s, sep) ==
    LET i == indexOf(s, <<sep>>, 1)
    IN  IF i = 0 THEN <<s>> ELSE <<SubSeq(s, 1, i - 1)>> \o split(SubSeq(s, i + 1, Len(s)), sep)

RECURSIVE join(_, _)
join(parts, sep) ==
    IF parts = <<>> THEN <<>>
    ELSE IF Len(parts) = 1 THEN parts[1]
    ELSE parts[1] \o <<sep>> \o join(Tail(parts), sep)

\* the backquote character (the tools read no backquote inside a string)
Backquote == "BACKQUOTE"

Fence == <<Backquote, Backquote, Backquote>>

\* completion.replace(/```[\s\S]*?```/g, ''): each fence up to the nearest
\* closing fence goes, with everything between them
RECURSIVE removeFencedBlocks(_)
removeFencedBlocks(s) ==
    LET open == indexOf(s, Fence, 1)
        close == IF open = 0 THEN 0 ELSE indexOf(s, Fence, open + 3)
    IN  IF close = 0 THEN s
        ELSE SubSeq(s, 1, open - 1) \o removeFencedBlocks(SubSeq(s, close + 3, Len(s)))

\* completion.replace(/```/g, '')
RECURSIVE removeFences(_)
removeFences(s) ==
    LET i == indexOf(s, Fence, 1)
    IN  IF i = 0 THEN s ELSE SubSeq(s, 1, i - 1) \o removeFences(SubSeq(s, i + 3, Len(s)))

Explanation == <<"e", "x", "p", "l", "a", "n", "a", "t", "i", "o", "n">>

looksLikeExplanation(line) ==
    /\ \/ startsWith(trim(line), <<"/", "/">>)
       \/ startsWith(trim(line), <<"#">>)
       \/ startsWith(trim(line), <<"/", "*">>)
    /\ includes(toLowerCase(line), Explanation)

RECURSIVE codeLines(_)
codeLines(lines) ==
    IF lines = <<>> THEN <<>>
    ELSE IF looksLikeExplanation(Head(lines)) THEN codeLines(Tail(lines))
    ELSE <<Head(lines)>> \o codeLines(Tail(lines))

cleanCompletion(completion, linePrefix) ==
    LET unfenced == removeFences(removeFencedBlocks(completion))
        kept == trimEnd(join(codeLines(split(unfenced, "\n")), "\n"))
        linePrefixTrimmed == trim(linePrefix)
        deduped == IF linePrefixTrimmed # <<>> /\ startsWith(trim(kept), linePrefixTrimmed)
                   THEN substring(trim(kept), Len(linePrefixTrimmed))
                   ELSE kept
    IN  IF trim(deduped) = <<>> THEN <<>> ELSE deduped

\* ------------------------------------------------------------ configuration
Providers == {"groq", "perplexity", "huggingface", "ollama", "togetherai", "replicate"}

KeyProviders == {"groq", "perplexity", "huggingface", "togetherai", "replicate"}

UnknownProviders == {"openai", "Groq"}

DefaultProvider == "groq"

DefaultModel(p) ==
    CASE p = "groq" -> "llama-3.3-70b-versatile"
      [] p = "perplexity" -> "llama-3.1-sonar-large-128k-online"
      [] p = "huggingface" -> "microsoft/DialoGPT-large"
      [] p = "ollama" -> "codellama"
      [] p = "togetherai" -> "meta-llama/Llama-2-70b-chat-hf"
      [] p = "replicate" -> "meta/llama-2-70b-chat"

DefaultBaseUrl == "http://localhost:11434"

\* values a settings update can write
KeyValues == {<<>>, <<"">>, <<"k1">>, <<"k2">>}
ModelValues == {<<>>, <<"custom-model">>}
MaxTokensValues == {<<>>, <<512>>}
TemperatureValues == {<<>>, <<7>>}
BaseUrlValues == {<<>>, <<"http://gpu:11434">>}
ProviderValues == {<<>>} \cup {<<p>> : p \in Providers \cup UnknownProviders}

UnsetConfig ==
    [provider |-> <<>>,
     apiKey |-> [p \in KeyProviders |-> <<>>],
     model |-> [p \in Providers |-> <<>>],
     baseUrl |-> <<>>,
     maxTokens |-> <<>>,
     temperature |-> <<>>,
     enableInlineCompletion |-> <<>>]

Settings ==
    {<<"provider", "">>, <<"maxTokens", "">>, <<"temperature", "">>,
     <<"baseUrl", "">>, <<"enableInlineCompletion", "">>}
    \cup {<<"apiKey", p>> : p \in KeyProviders}
    \cup {<<"model", p>> : p \in Providers}

SettingValues(s) ==
    CASE s[1] = "provider" -> ProviderValues
      [] s[1] = "maxTokens" -> MaxTokensValues
      [] s[1] = "temperature" -> TemperatureValues
      [] s[1] = "baseUrl" -> BaseUrlValues
      [] s[1] = "enableInlineCompletion" -> {<<>>, <<FALSE>>}
      [] s[1] = "apiKey" -> KeyValues
      [] s[1] = "model" -> ModelValues

UpdateSetting(c, s, v) ==
    CASE s[1] = "apiKey" -> [c EXCEPT !.apiKey[s[2]] = v]
      [] s[1] = "model" -> [c EXCEPT !.model[s[2]] = v]
      [] OTHER -> [c EXCEPT ![s[1]] = v]

\* ------------------------------------------------------------------- state
VARIABLE cfg
VARIABLE groqClient
VARIABLE hfClient
VARIABLE calls
VARIABLE shown
VARIABLE cfgChanges
VARIABLE req
VARIABLE debounceTimer
VARIABLE cache
VARIABLE elapsed
VARIABLE registered
VARIABLE docLines
VARIABLE chatHistory
VARIABLE posted
VARIABLE webview
VARIABLE generatedFiles
VARIABLE progressCancelled
VARIABLE arg
VARIABLE ret

vars ==
    <<cfg, groqClient, hfClient, calls, shown, cfgChanges, req, debounceTimer, cache, elapsed,
      registered, docLines, chatHistory, posted, webview, generatedFiles,
      progressCancelled, arg, ret>>

serviceVars == <<cfg, groqClient, hfClient, cfgChanges>>

pipelineVars == <<req, debounceTimer, cache, elapsed>>

\* the document a comment command edits and the chat panel
viewVars == <<docLines, chatHistory, posted, webview>>

\* the commands registered with the editor, and the input and the result of
\* a function applied on its own
hostVars == <<registered, generatedFiles, progressCancelled, arg, ret>>

\* the commands registered with the editor, the tree of the project
\* generator and the generateProject runs whose progress notification the
\* user has cancelled
projectVars == <<registered, generatedFiles, progressCancelled>>

\* cfg         workspace configuration section 'aiCodeAssistant'
\* groqClient  AIProviderService.groqClient: <<>> (undefined) or <<key>>
\* hfClient    AIProviderService.hfClient:   <<>> (undefined) or <<key>>
\* calls       every generateResponse invocation, in call order
\* shown       documents and error notifications shown by the commands
\* cfgChanges  number of settings updates so far
\* req         every provideInlineCompletionItems invocation, in trigger order
\* debounceTimer  InlineCompletionProvider.debounceTimer: 0 (undefined) or the
\*             request whose setTimeout handle it holds
\* cache       InlineCompletionProvider.cache: the entries in insertion order
\* elapsed     milliseconds since the latest setTimeout call, counted up to
\*             DebounceMs

\* --------------------------------------------------------- AIProviderService
\* initializeClients: a handle is (re)built when its key is truthy and is
\* left as it was otherwise.
initializeClients(c, gq, hf) ==
    [groq |-> IF Truthy(c.apiKey["groq"]) THEN <<c.apiKey["groq"][1]>> ELSE gq,
     hf |-> IF Truthy(c.apiKey["huggingface"]) THEN <<c.apiKey["huggingface"][1]>> ELSE hf]

Fail(msg) == [ok |-> FALSE, key |-> "", model |-> "", url |-> "", error |-> msg]

Send(key, model, url) == [ok |-> TRUE, key |-> key, model |-> model, url |-> url, error |-> <<>>]

generateGroqResponse ==
    IF groqClient = <<>>
    THEN Fail(<<"Groq API key not configured">>)
    ELSE Send(groqClient[1], Get(cfg.model["groq"], DefaultModel("groq")), "groq-sdk")

generatePerplexityResponse ==
    IF ~Truthy(cfg.apiKey["perplexity"])
    THEN Fail(<<"Perplexity API key not configured">>)
    ELSE Send(cfg.apiKey["perplexity"][1],
              Get(cfg.model["perplexity"], DefaultModel("perplexity")),
              "https://api.perplexity.ai/chat/completions")

generateHuggingFaceResponse ==
    IF hfClient = <<>>
    THEN Fail(<<"HuggingFace API key not configured">>)
    ELSE Send(hfClient[1], Get(cfg.model["huggingface"], DefaultModel("huggingface")),
              "hf-inference")

generateOllamaResponse ==
    Send("", Get(cfg.model["ollama"], DefaultModel("ollama")),
         Get(cfg.baseUrl, DefaultBaseUrl))

generateTogetherAIResponse ==
    IF ~Truthy(cfg.apiKey["togetherai"])
    THEN Fail(<<"Together AI API key not configured">>)
    ELSE Send(cfg.apiKey["togetherai"][1],
              Get(cfg.model["togetherai"], DefaultModel("togetherai")),
              "https://api.together.xyz/inference")

\* a generateReplicateResponse that prefers the Together AI key when one is set
generateReplicateResponseSharedKey ==
    IF ~Truthy(cfg.apiKey["togetherai"]) /\ ~Truthy(cfg.apiKey["replicate"])
    THEN Fail(<<"Replicate API key not configured">>)
    ELSE Send((IF Truthy(cfg.apiKey["togetherai"]) THEN cfg.apiKey["togetherai"]
               ELSE cfg.apiKey["replicate"])[1],
              Get(cfg.model["replicate"], DefaultModel("replicate")),
              "https://api.replicate.com/v1/predictions")

generateReplicateResponse ==
    IF ~Truthy(cfg.apiKey["replicate"])
    THEN Fail(<<"Replicate API key not configured">>)
    ELSE Send(cfg.apiKey["replicate"][1],
              Get(cfg.model["replicate"], DefaultModel("replicate")),
              "https://api.replicate.com/v1/predictions")

\* a switch whose default branch falls back to the groq adapter
DispatchFallback(provider) ==
    CASE provider = "perplexity" -> [adapters |-> <<"perplexity">>, start |-> generatePerplexityResponse]
      [] provider = "huggingface" -> [adapters |-> <<"huggingface">>, start |-> generateHuggingFaceResponse]
      [] provider = "ollama" -> [adapters |-> <<"ollama">>, start |-> generateOllamaResponse]
      [] provider = "togetherai" -> [adapters |-> <<"togetherai">>, start |-> generateTogetherAIResponse]
      [] provider = "replicate" -> [adapters |-> <<"replicate">>, start |-> generateReplicateResponse]
      [] OTHER -> [adapters |-> <<"groq">>, start |-> generateGroqResponse]

\* the switch of generateResponse: the adapters invoked and the first request
Dispatch(provider) ==
    CASE provider = "groq" -> [adapters |-> <<"groq">>, start |-> generateGroqResponse]
      [] provider = "perplexity" -> [adapters |-> <<"perplexity">>, start |-> generatePerplexityResponse]
      [] provider = "huggingface" -> [adapters |-> <<"huggingface">>, start |-> generateHuggingFaceResponse]
      [] provider = "ollama" -> [adapters |-> <<"ollama">>, start |-> generateOllamaResponse]
      [] provider = "togetherai" -> [adapters |-> <<"togetherai">>, start |-> generateTogetherAIResponse]
      [] provider = "replicate" -> [adapters |-> <<"replicate">>, start |-> generateReplicateResponse]
      [] OTHER -> [adapters |-> <<>>, start |-> Fail(<<"Unsupported provider: ", provider>>)]

\* a catch block that throws a new error wrapping the one it caught
RethrowWrapped(c) ==
    [c EXCEPT !.status = "error", !.phase = "done",
              !.error = <<"AI Provider Error: ">> \o c.thrown]

\* the catch block of generateResponse: log, then rethrow what was caught
Rethrow(c) ==
    [c EXCEPT !.status = "error", !.phase = "done", !.error = c.thrown]

\* an adapter throws err, which generateResponse catches
Throw(c, err) == Rethrow([c EXCEPT !.thrown = err])

Return(c, text) ==
    [c EXCEPT !.status = "ok", !.phase = "done", !.result = text]

\* a generateResponse that keeps the maxTokens and temperature it read first
generateResponseCached(caller, prompt, type) ==
    LET provider == Get(cfg.provider, DefaultProvider)
        maxTokens == IF calls # <<>> THEN calls[1].maxTokens
                     ELSE Get(cfg.maxTokens, DefaultMaxTokens)
        temperature == IF calls # <<>> THEN calls[1].temperature
                       ELSE Get(cfg.temperature, DefaultTemperatureX10)
        d == Dispatch(provider)
        c == [caller |-> caller, prompt |-> prompt, type |-> type,
              provider |-> provider, adapters |-> d.adapters,
              maxTokens |-> maxTokens, temperature |-> temperature,
              model |-> d.start.model, key |-> d.start.key, url |-> d.start.url,
              net |-> IF d.start.ok THEN 1 ELSE 0,
              status |-> "inflight",
              phase |-> IF provider = "replicate" THEN "create" ELSE "single",
              attempts |-> 0, body |-> <<>>, statusResponse |-> <<>>,
              result |-> <<>>, thrown |-> <<>>, error |-> <<>>]
    IN  IF d.start.ok THEN c ELSE Throw(c, d.start.error)

\* generateResponse up to its first suspension: the record of the call
generateResponse(caller, prompt, type) ==
    LET provider == Get(cfg.provider, DefaultProvider)
        maxTokens == Get(cfg.maxTokens, DefaultMaxTokens)
        temperature == Get(cfg.temperature, DefaultTemperatureX10)
        d == Dispatch(provider)
        c == [caller |-> caller, prompt |-> prompt, type |-> type,
              provider |-> provider, adapters |-> d.adapters,
              maxTokens |-> maxTokens, temperature |-> temperature,
              model |-> d.start.model, key |-> d.start.key, url |-> d.start.url,
              net |-> IF d.start.ok THEN 1 ELSE 0,
              status |-> "inflight",
              phase |-> IF provider = "replicate" THEN "create" ELSE "single",
              attempts |-> 0, body |-> <<>>, statusResponse |-> <<>>,
              result |-> <<>>, thrown |-> <<>>, error |-> <<>>]
    IN  IF d.start.ok THEN c ELSE Throw(c, d.start.error)

\* ---------------------------------------------------------- vendor replies
\* texts a vendor generates: empty, blank, an echo of the line prefix
\* followed by code, and a fenced block
ResponseTexts == {<<>>, <<" ">>, <<"x", "=", "5", ";">>, Fence \o <<"5">> \o Fence}

\* successful response bodies: with the generated text; with the text field
\* missing; with the message missing; with an empty choices list; with the
\* choices list missing (under output for togetherai); an empty object
BodyShapes == {"full", "noField", "noMessage", "emptyChoices", "noChoices", "empty"}

\* the output field of a status reply: <<>> when absent, else <<fragments>>
OutputValues == {<<>>, << <<>> >>, << << <<"a">>, <<"b">> >> >>}

\* the replies the facade is explored with: every shape of body and of status
Replies ==
    {[kind |-> "error"]}
    \cup {[kind |-> "body", shape |-> sh, text |-> <<"x", "=", "5", ";">>] : sh \in BodyShapes}
    \cup {[kind |-> "status", status |-> "succeeded", output |-> o] : o \in OutputValues}
    \cup {[kind |-> "status", status |-> st, output |-> <<>>] : st \in {"failed", "processing"}}

\* the replies the pipeline is explored with: every text, and a failure
PipelineReplies ==
    {[kind |-> "error"]}
    \cup {[kind |-> "body", shape |-> "full", text |-> t] : t \in ResponseTexts}

RECURSIVE Join(_)
Join(frags) == IF frags = <<>> THEN <<>> ELSE Head(frags) \o Join(Tail(frags))

\* the text an adapter extracts from a response body: <<text>>, or <<>> when
\* the extraction dereferences a missing list and throws
Extract(provider, body) ==
    CASE body.shape = "full" -> <<body.text>>
      [] body.shape \in {"noField", "noMessage", "emptyChoices"} -> << <<>> >>
      [] body.shape = "noChoices" ->
            IF provider \in {"groq", "perplexity", "togetherai"} THEN <<>> ELSE << <<>> >>
      [] body.shape = "empty" ->
            IF provider \in {"groq", "perplexity"} THEN <<>> ELSE << <<>> >>

\* a poll loop that makes one status check too many
loopContinuesOffByOne(result, attempts) == result = <<>> /\ attempts <= maxAttempts

\* while (!result && attempts < maxAttempts)
loopContinues(result, attempts) == result = <<>> /\ attempts < maxAttempts

\* one reply delivered to an adapter that is waiting for it
AdapterStep(c, reply) ==
    CASE reply.kind = "error" -> Throw(c, <<"Network Error">>)
      [] c.phase = "single" ->
            LET x == Extract(c.provider, reply)
                cb == [c EXCEPT !.body = <<reply.shape>>]
            IN  IF x = <<>> THEN Throw(cb, <<"TypeError">>) ELSE Return(cb, x[1])
      [] c.phase = "create" -> [c EXCEPT !.phase = "sleep"]
      [] c.phase = "poll" ->
            LET statusResponse == [status |-> reply.status, output |-> reply.output]
                cs == [c EXCEPT !.statusResponse = <<statusResponse>>]
            IN  IF reply.status = "failed"
                THEN Throw(cs, <<"Replicate prediction failed">>)
                ELSE LET result == IF reply.status = "succeeded"
                                   THEN (IF reply.output = <<>> THEN <<>> ELSE Join(reply.output[1]))
                                   ELSE <<>>
                         attempts == c.attempts + 1
                     IN  IF loopContinues(result, attempts)
                         THEN [cs EXCEPT !.attempts = attempts, !.phase = "sleep"]
                         ELSE Return([cs EXCEPT !.attempts = attempts], result)

\* whether the vendor of call c can send reply in the phase c is in
ReplyFits(c, reply) ==
    CASE c.phase = "single" -> reply.kind \in {"error", "body"}
      [] c.phase = "create" -> reply.kind \in {"error", "body"} /\ (reply.kind = "body" => reply.shape = "full")
      [] c.phase = "poll" -> reply.kind \in {"error", "status"}
      [] OTHER -> FALSE

\* a job keeps the poll loop of call c going at most MaxPending times
PendingBounded(c, reply) ==
    (ReplyFits(c, reply) /\ AdapterStep(c, reply).status = "inflight" /\ c.phase = "poll")
    => c.attempts < MaxPending

\* ------------------------------------------------- InlineCompletionProvider
Docs ==
    {[languageId |-> "typescript", before |-> <<>>, linePrefix |-> <<"x", "=">>, lineSuffix |-> <<>>],
     [languageId |-> "typescript", before |-> <<>>, linePrefix |-> <<"x">>, lineSuffix |-> <<"y">>],
     [languageId |-> "typescript", before |-> <<>>, linePrefix |-> <<" ">>, lineSuffix |-> <<>>],
     [languageId |-> "typescript", before |-> <<>>, linePrefix |-> <<" ">>, lineSuffix |-> <<"y">>]}

contextBefore(doc) == doc.before \o doc.linePrefix

\* `${document.languageId}:${contextBefore.slice(-500)}`
cacheKey(doc) == <<doc.languageId, ":">> \o sliceLast(contextBefore(doc), FingerprintChars)

\* linePrefix.match(/\w$/) && lineSuffix.match(/^\w/)
midWord(doc) ==
    /\ doc.linePrefix # <<>> /\ doc.linePrefix[Len(doc.linePrefix)] \in WordChars
    /\ doc.lineSuffix # <<>> /\ doc.lineSuffix[1] \in WordChars

blankLine(doc) == trim(doc.linePrefix) = <<>> /\ trim(doc.lineSuffix) = <<>>

buildCompletionPrompt(doc) ==
    [language |-> doc.languageId, contextBefore |-> contextBefore(doc),
     contextAfter |-> doc.lineSuffix, linePrefix |-> doc.linePrefix,
     lineSuffix |-> doc.lineSuffix]

cacheHas(c, k) == \E i \in DOMAIN c : c[i].key = k

cacheGet(c, k) == c[CHOOSE i \in DOMAIN c : c[i].key = k].value

\* Map.set: an existing key keeps its place, a new key goes last
cacheSet(c, k, v) ==
    IF cacheHas(c, k)
    THEN [i \in DOMAIN c |-> IF c[i].key = k THEN [key |-> k, value |-> v] ELSE c[i]]
    ELSE Append(c, [key |-> k, value |-> v])

limitCacheSecondOldest(c) == IF Len(c) > CacheCapacity THEN <<c[1]>> \o Tail(Tail(c)) ELSE c

\* the size check after cache.set: drop the first key of the map
limitCache(c) == IF Len(c) > CacheCapacity THEN Tail(c) ELSE c

generateCompletionStartNoProbe(r, docOk) ==
    LET doc == r.doc
    IN  IF ~docOk THEN [kind |-> "throw"]
        ELSE IF midWord(doc) THEN [kind |-> "return", value |-> <<>>]
        ELSE IF blankLine(doc) THEN [kind |-> "return", value |-> <<>>]
        ELSE IF r.cancelled THEN [kind |-> "return", value |-> <<>>]
        ELSE [kind |-> "call"]

\* a generateCompletion without the blank-line check
generateCompletionStartNoBlankCheck(r, docOk) ==
    LET doc == r.doc
    IN  IF ~docOk THEN [kind |-> "throw"]
        ELSE IF midWord(doc) THEN [kind |-> "return", value |-> <<>>]
        ELSE IF cacheHas(cache, cacheKey(doc))
             THEN [kind |-> "return", value |-> <<cacheGet(cache, cacheKey(doc))>>]
        ELSE IF r.cancelled THEN [kind |-> "return", value |-> <<>>]
        ELSE [kind |-> "call"]

\* a generateCompletion that checks for a blank line before it probes the cache
generateCompletionStartBlankFirst(r, docOk) ==
    LET doc == r.doc
    IN  IF ~docOk THEN [kind |-> "throw"]
        ELSE IF midWord(doc) THEN [kind |-> "return", value |-> <<>>]
        ELSE IF blankLine(doc) THEN [kind |-> "return", value |-> <<>>]
        ELSE IF cacheHas(cache, cacheKey(doc))
             THEN [kind |-> "return", value |-> <<cacheGet(cache, cacheKey(doc))>>]
        ELSE IF r.cancelled THEN [kind |-> "return", value |-> <<>>]
        ELSE [kind |-> "call"]

\* generateCompletion up to its first suspension: what it does next
generateCompletionStart(r, docOk) ==
    LET doc == r.doc
    IN  IF ~docOk THEN [kind |-> "throw"]
        ELSE IF midWord(doc) THEN [kind |-> "return", value |-> <<>>]
        ELSE IF cacheHas(cache, cacheKey(doc))
             THEN [kind |-> "return", value |-> <<cacheGet(cache, cacheKey(doc))>>]
        ELSE IF blankLine(doc) THEN [kind |-> "return", value |-> <<>>]
        ELSE IF r.cancelled THEN [kind |-> "return", value |-> <<>>]
        ELSE [kind |-> "call"]

\* generateCompletion after generateResponse has settled: the value it
\* returns (<<>> for null) and the cache it leaves
generateCompletionResume(r, c) ==
    IF c.status = "ok" /\ c.result # <<>> /\ trim(c.result) # <<>>
    THEN LET cleanedCompletion == cleanCompletion(c.result, r.doc.linePrefix)
         IN  [value |-> <<cleanedCompletion>>, stored |-> TRUE,
              cache |-> limitCache(cacheSet(cache, cacheKey(r.doc), cleanedCompletion))]
    ELSE [value |-> <<>>, stored |-> FALSE, cache |-> cache]

\* the tail of the setTimeout callback: the list the promise resolves with
resolveWith(r, value) ==
    IF value # <<>> /\ value[1] # <<>> /\ ~r.cancelled THEN <<value[1]>> ELSE <<>>

\* ------------------------------------------------ CommentCompletionProvider
\* triggerPatterns: the marker a comment opens with and, for html and css,
\* the marker the line must end with; <<>> for a language without a pattern
triggerPatterns(language) ==
    CASE language \in {"javascript", "typescript", "java", "csharp", "cpp", "c", "go",
                       "rust", "php"} -> <<[open |-> Chars("//"), close |-> <<>>]>>
      [] language \in {"python", "ruby"} -> <<[open |-> Chars("#"), close |-> <<>>]>>
      [] language = "html" -> <<[open |-> Chars("<!--"), close |-> Chars("-->")]>>
      [] language = "css" -> <<[open |-> Chars("/*"), close |-> Chars("*/")]>>
      [] OTHER -> <<>>

\* what \s*(.+) captures of a text that runs to the end of the match: the
\* text without its leading white space, or its last character when it is
\* all white space
capture(inner) == IF trimStart(inner) # <<>> THEN trimStart(inner) ELSE <<inner[Len(inner)]>>

\* lineText.match(pattern): <<>> for no match, else <<match[1]>>; the match
\* starts at the leftmost opening marker that has a character after it
\* (before the closing marker the line ends with)
match(lineText, pattern) ==
    LET endsRight == pattern.close = <<>>
                     \/ (Len(lineText) >= Len(pattern.close)
                         /\ sliceLast(lineText, Len(pattern.close)) = pattern.close)
        last == Len(lineText) - Len(pattern.close)
        i == indexOf(lineText, pattern.open, 1)
    IN  IF endsRight /\ i # 0 /\ i + Len(pattern.open) <= last
        THEN <<capture(SubSeq(lineText, i + Len(pattern.open), last))>>
        ELSE <<>>

codeGenKeywords ==
    <<"function", "class", "method", "create", "generate", "implement",
      "TODO", "FIXME", "NOTE", "BUG", "HACK", "XXX", "algorithm",
      "loop", "condition", "check", "validate", "parse", "format",
      "calculate", "compute", "process", "handle", "manage", "sort">>

\* a keyword test that compares the letters as they are written
hasCodeGenKeywordExactCase(comment) ==
    \E k \in DOMAIN codeGenKeywords : includes(comment, Chars(codeGenKeywords[k]))

hasCodeGenKeyword(comment) ==
    \E k \in DOMAIN codeGenKeywords :
        includes(toLowerCase(comment), toLowerCase(Chars(codeGenKeywords[k])))

\* provideCompletionItems: the list of completion items for the line
provideCompletionItems(lineText, lineNumber, language) ==
    LET pattern == triggerPatterns(language)
        m == match(lineText, pattern[1])
        comment == trim(m[1])
    IN  IF pattern = <<>> THEN <<>>
        ELSE IF m = <<>> THEN <<>>
        ELSE IF Len(comment) < 3 THEN <<>>
        ELSE IF ~hasCodeGenKeyword(comment) THEN <<>>
        ELSE <<[label |-> "Generate code from comment",
                command |-> "aiCodeAssistant.generateFromComment",
                arguments |-> [lineNumber |-> lineNumber, comment |-> comment,
                               language |-> language]]>>

\* ------------------------------------------------------------------ callers
ErrorNote(prefix, err) == [kind |-> "error", text |-> <<prefix>> \o err]

\* line.text.match(/^\s*/)[0]
indentation(lineText) == SubSeq(lineText, 1, Len(lineText) - Len(trimStart(lineText)))

\* the lines of the generated code, each behind the indentation of the line
\* they replace
RECURSIVE indentAll(_, _)
indentAll(codeLinesLeft, indent) ==
    IF codeLinesLeft = <<>> THEN <<>>
    ELSE <<indent \o Head(codeLinesLeft)>> \o indentAll(Tail(codeLinesLeft), indent)

\* editBuilder.replace(lineRange, formattedCode)
replaceLine(text, lineNumber, generatedCode) ==
    SubSeq(text, 1, lineNumber - 1)
    \o indentAll(split(generatedCode, "\n"), indentation(text[lineNumber]))
    \o SubSeq(text, lineNumber + 1, Len(text))

\* editor.action.formatDocument: the formatter of the language, if there is
\* one, is free to indent the lines anew
formatDocument(text) == {text, [i \in DOMAIN text |-> trimStart(text[i])]}

\* a settling that leaves the thinking indicator on when the call failed
chatSettledStillThinking(history, msgs, c) ==
    IF c.status = "ok"
    THEN [history |-> Append(history, [role |-> "assistant", content |-> c.result]),
          posted |-> msgs \o <<[type |-> "thinking", thinking |-> FALSE],
                               [type |-> "assistantMessage", content |-> c.result]>>]
    ELSE [history |-> history,
          posted |-> msgs \o <<[type |-> "error", content |-> <<"Error: ">> \o c.error]>>]

\* handleChatMessage after generateResponse has settled: the history and the
\* messages posted to the webview
chatSettled(history, msgs, c) ==
    IF c.status = "ok"
    THEN [history |-> Append(history, [role |-> "assistant", content |-> c.result]),
          posted |-> msgs \o <<[type |-> "thinking", thinking |-> FALSE],
                               [type |-> "assistantMessage", content |-> c.result]>>]
    ELSE [history |-> history,
          posted |-> msgs \o <<[type |-> "thinking", thinking |-> FALSE],
                               [type |-> "error", content |-> <<"Error: ">> \o c.error]>>]

\* a.localeCompare(b) on paths: character by character in collation order,
\* punctuation before letters, a proper prefix first
RECURSIVE localeCompare(_, _)
localeCompare(a, b) ==
    LET rank(ch) == IF ch = "/" THEN 0
                    ELSE IF \E i \in 1..26 : LowerCase[i] = ch
                         THEN CHOOSE i \in 1..26 : LowerCase[i] = ch
                         ELSE 27
    IN  IF a = <<>> /\ b = <<>> THEN 0
        ELSE IF a = <<>> THEN -1
        ELSE IF b = <<>> THEN 1
        ELSE IF rank(Head(a)) < rank(Head(b)) THEN -1
        ELSE IF rank(Head(a)) > rank(Head(b)) THEN 1
        ELSE localeCompare(Tail(a), Tail(b))

\* the comparator of files.sort: folders first, then by path
compareFiles(a, b) ==
    IF a.type = "folder" /\ b.type # "folder" THEN -1
    ELSE IF a.type # "folder" /\ b.type = "folder" THEN 1
    ELSE localeCompare(a.path, b.path)

\* files.sort(compareFiles); the sort is stable
RECURSIVE sortFiles(_)
sortFiles(files) ==
    IF files = <<>> THEN <<>>
    ELSE LET rest == sortFiles(SubSeq(files, 1, Len(files) - 1))
             last == files[Len(files)]
             k == Cardinality({i \in DOMAIN rest : compareFiles(rest[i], last) <= 0})
         IN  SubSeq(rest, 1, k) \o <<last>> \o SubSeq(rest, k + 1, Len(rest))

\* file.path.split('/').filter(p => p)
pathParts(path) == SelectSeq(split(path, "/"), LAMBDA p : p # <<>>)

\* the loop of buildFileTree over the sorted files; nodes holds the objects
\* made so far, tree and folderMap refer to them by position
RECURSIVE buildFileTreeLoop(_, _)
buildFileTreeLoop(b, files) ==
    IF files = <<>> THEN b
    ELSE
    LET file == Head(files)
        parts == pathParts(file.path)
        made == Len(b.nodes) + 1
        set(key) == [k \in DOMAIN b.folderMap \cup {key} |->
                        IF k = key THEN made ELSE b.folderMap[k]]
        dirPath == join(SubSeq(parts, 1, Len(parts) - 1), "/") \o <<"/">>
        folderFile == [name |-> IF parts # <<>> THEN parts[Len(parts)] ELSE file.path,
                       path |-> file.path, content |-> <<>>,
                       type |-> "folder", children |-> <<>>]
        fileItem == [name |-> parts[Len(parts)], path |-> file.path,
                     content |-> file.content, type |-> "file"]
        parentFile == [name |-> parts[Len(parts) - 1], path |-> dirPath,
                       content |-> <<>>, type |-> "folder", children |-> <<fileItem>>]
        next ==
            IF file.type = "folder"
            THEN [nodes |-> Append(b.nodes, folderFile),
                  folderMap |-> set(file.path),
                  tree |-> IF Len(parts) = 1 THEN Append(b.tree, made) ELSE b.tree]
            ELSE IF Len(parts) = 1
            THEN [b EXCEPT !.nodes = Append(@, fileItem), !.tree = Append(@, made)]
            ELSE IF dirPath \in DOMAIN b.folderMap
            THEN [b EXCEPT !.nodes[b.folderMap[dirPath]].children = Append(@, fileItem)]
            ELSE [nodes |-> Append(b.nodes, parentFile),
                  folderMap |-> set(dirPath),
                  tree |-> Append(b.tree, made)]
    IN  buildFileTreeLoop(next, Tail(files))

buildFileTree(files) ==
    LET b == buildFileTreeLoop([nodes |-> <<>>, folderMap |-> <<>>, tree |-> <<>>],
                               sortFiles(files))
    IN  [t \in DOMAIN b.tree |-> b.nodes[b.tree[t]]]

\* an entry of the files list of a parsed response
Entry(type, path) ==
    IF type = "folder" THEN [path |-> Chars(path), type |-> type]
    ELSE [path |-> Chars(path), type |-> type, content |-> Chars("x")]

\* the entries of a generated project: a folder declared with and without
\* the trailing slash, a nested folder, files at the root and in the folders
ProjectEntries ==
    {Entry("folder", "s"), Entry("folder", "s/"), Entry("folder", "s/u/"),
     Entry("file", "r"), Entry("file", "s/a"), Entry("file", "s/b"), Entry("file", "s/c"),
     Entry("file", "s/u/d")}

\* the JSON documents a vendor answers a project prompt with, as the files
\* JSON.parse finds under project.files
ProjectDocuments ==
    {[json |-> Chars("{A}"), files |-> <<Entry("file", "s/a"), Entry("folder", "s/")>>],
     [json |-> Chars("{B}"), files |-> <<Entry("file", "r")>>]}

\* parseGeneratedProject: the text from the first { to the last } is parsed
\* and its files go to buildFileTree; a response without such a document is
\* read as plain text, which without file markers holds no files
parseGeneratedProject(response) ==
    LET open == {i \in DOMAIN response : response[i] = "{"}
        close == {i \in DOMAIN response : response[i] = "}"}
        first == CHOOSE i \in open : \A j \in open : i <= j
        last == CHOOSE i \in close : \A j \in close : j <= i
        jsonMatch == IF open = {} \/ close = {} \/ last < first THEN <<>>
                     ELSE SubSeq(response, first, last)
        parsed == {d \in ProjectDocuments : d.json = jsonMatch}
    IN  IF parsed = {} THEN buildFileTree(<<>>)
        ELSE buildFileTree((CHOOSE d \in parsed : TRUE).files)

\* the commands registerFileCommands registers
FileCommands == {"aiCodeAssistant.openGeneratedFile", "aiCodeAssistant.saveProject"}

\* editBuilder.replace(selection, optimizedCode), the selection being line
\* lineNumber
replaceSelection(text, lineNumber, optimizedCode) ==
    SubSeq(text, 1, lineNumber - 1) \o split(optimizedCode, "\n")
    \o SubSeq(text, lineNumber + 1, Len(text))

\* what the suspended caller of call c does when the call settles
Resume(c) ==
    CASE c.caller.kind = "explain" ->
            /\ shown' = Append(shown,
                  IF c.status = "ok"
                  THEN [kind |-> "document", text |-> c.result]
                  ELSE ErrorNote("Error explaining code: ", c.error))
            /\ UNCHANGED <<req, cache>>
            /\ UNCHANGED <<viewVars, projectVars>>
      [] c.caller.kind = "inline" ->
            LET r == req[c.caller.id]
                g == generateCompletionResume(r, c)
            IN  /\ cache' = g.cache
                /\ req' = [req EXCEPT ![c.caller.id] =
                              [r EXCEPT !.pc = "resolved", !.stored = g.stored,
                                        !.returned = g.value,
                                        !.result = resolveWith(r, g.value)]]
                /\ UNCHANGED shown
                /\ UNCHANGED <<viewVars, projectVars>>
      [] c.caller.kind = "comment" ->
            /\ IF c.status = "error"
               THEN /\ shown' = Append(shown, ErrorNote("Error generating code: ", c.error))
                    /\ UNCHANGED docLines
               ELSE /\ docLines' \in formatDocument(replaceLine(docLines, c.caller.lineNumber, c.result))
                    /\ UNCHANGED shown
            /\ UNCHANGED <<req, cache, chatHistory, posted, webview>>
            /\ UNCHANGED projectVars
      [] c.caller.kind = "chat" ->
            LET after == chatSettled(chatHistory, posted, c)
            IN  /\ chatHistory' = after.history
                /\ posted' = after.posted
                /\ UNCHANGED <<shown, req, cache, docLines, webview>>
                /\ UNCHANGED projectVars
      [] c.caller.kind = "optimize" ->
            /\ IF c.status = "error"
               THEN /\ shown' = Append(shown, ErrorNote("Error optimizing code: ", c.error))
                    /\ UNCHANGED docLines
               ELSE /\ docLines' = replaceSelection(docLines, c.caller.lineNumber, c.result)
                    /\ UNCHANGED shown
            /\ UNCHANGED <<req, cache, chatHistory, posted, webview>>
            /\ UNCHANGED projectVars
      [] c.caller.kind = "tests" ->
            /\ shown' = Append(shown,
                  IF c.status = "ok"
                  THEN [kind |-> "document", text |-> c.result]
                  ELSE ErrorNote("Error generating tests: ", c.error))
            /\ UNCHANGED <<req, cache>>
            /\ UNCHANGED <<viewVars, projectVars>>
      [] c.caller.kind = "project" ->
            \* the callback of withProgress after the await, then
            \* registerFileCommands, then the catch block of generateProject
            /\ generatedFiles' = IF c.status = "ok" /\ c.caller.id \notin progressCancelled
                                 THEN parseGeneratedProject(c.result)
                                 ELSE generatedFiles
            /\ IF c.status = "error"
               THEN /\ shown' = Append(shown, ErrorNote("Error generating project: ", c.error))
                    /\ UNCHANGED registered
               ELSE IF "aiCodeAssistant.openGeneratedFile" \in registered
               THEN /\ shown' = Append(shown, ErrorNote("Error generating project: ",
                          <<"command 'aiCodeAssistant.openGeneratedFile' already exists">>))
                    /\ UNCHANGED registered
               ELSE /\ registered' = registered \cup FileCommands
                    /\ UNCHANGED shown
            /\ UNCHANGED <<req, cache, progressCancelled>>
            /\ UNCHANGED viewVars

\* ------------------------------------------------------------------ actions
\* a settings update followed by the onDidChangeConfiguration listener
ConfigChange(s, v) ==
    /\ v # (IF s[1] \in {"apiKey", "model"} THEN cfg[s[1]][s[2]] ELSE cfg[s[1]])
    /\ cfg' = UpdateSetting(cfg, s, v)
    /\ LET cl == initializeClients(cfg', groqClient, hfClient)
       IN  groqClient' = cl.groq /\ hfClient' = cl.hf
    /\ cfgChanges' = cfgChanges + 1
    /\ UNCHANGED <<calls, shown>>
    /\ UNCHANGED pipelineVars
    /\ UNCHANGED <<viewVars, hostVars>>

PendingCmds ==
    Cardinality({i \in DOMAIN calls : calls[i].caller.kind = "explain" /\ calls[i].status = "inflight"})

\* the aiCodeAssistant.explainCode command
ExplainCode(hasEditor, selectedText) ==
    /\ IF ~hasEditor
       THEN /\ shown' = Append(shown, [kind |-> "error", text |-> <<"No active editor found">>])
            /\ UNCHANGED <<calls, req, cache>>
       ELSE IF selectedText = <<>>
       THEN /\ shown' = Append(shown, [kind |-> "error", text |-> <<"No code selected">>])
            /\ UNCHANGED <<calls, req, cache>>
       ELSE LET c == generateResponse([kind |-> "explain", id |-> Len(calls) + 1],
                                      [text |-> selectedText], "code-explanation")
            IN  /\ calls' = Append(calls, c)
                /\ IF c.status = "inflight" THEN UNCHANGED <<shown, req, cache>> ELSE Resume(c)
    /\ UNCHANGED <<debounceTimer, elapsed>>
    /\ UNCHANGED serviceVars
    /\ UNCHANGED <<viewVars, hostVars>>

\* the one-second sleep of the replicate poll loop ends: the status check is sent
PollWake(i) ==
    /\ calls[i].status = "inflight" /\ calls[i].phase = "sleep"
    /\ calls' = [calls EXCEPT ![i].phase = "poll", ![i].net = @ + 1]
    /\ UNCHANGED shown
    /\ UNCHANGED serviceVars
    /\ UNCHANGED <<viewVars, hostVars>>
    /\ UNCHANGED pipelineVars

\* a vendor reply arrives for call i; the adapter and then its caller continue
NetReply(i, reply) ==
    /\ calls[i].status = "inflight"
    /\ ReplyFits(calls[i], reply)
    /\ LET c == AdapterStep(calls[i], reply)
       IN  /\ calls' = [calls EXCEPT ![i] = c]
           /\ IF c.status = "inflight"
              THEN UNCHANGED <<shown, req, cache>> /\ UNCHANGED <<viewVars, projectVars>>
              ELSE Resume(c)
    /\ UNCHANGED <<debounceTimer, elapsed>>
    /\ UNCHANGED serviceVars
    /\ UNCHANGED <<arg, ret>>

\* time passes
Tick ==
    /\ elapsed < DebounceMs
    /\ elapsed' = IF elapsed + TickMs < DebounceMs THEN elapsed + TickMs ELSE DebounceMs
    /\ UNCHANGED <<calls, shown, req, debounceTimer, cache>>
    /\ UNCHANGED serviceVars
    /\ UNCHANGED <<viewVars, hostVars>>

NewRequest(doc) ==
    [doc |-> doc, enabled |-> TRUE, pc |-> "timer", cancelled |-> FALSE,
     threw |-> FALSE, returned |-> <<>>, stored |-> FALSE, result |-> <<>>]

clearTimeoutNoop(rs, handle) == rs

\* a clearTimeout that settles the promise of the timer it drops
clearTimeoutResolving(rs, handle) ==
    IF handle # 0 /\ rs[handle].pc = "timer"
    THEN [rs EXCEPT ![handle].pc = "resolved"]
    ELSE rs

\* clearTimeout(this.debounceTimer): a timer that has not fired is dropped
clearTimeout(rs, handle) ==
    IF handle # 0 /\ rs[handle].pc = "timer"
    THEN [rs EXCEPT ![handle].pc = "cleared"]
    ELSE rs

\* provideInlineCompletionItems: the editor asks for inline completions
Trigger(doc) ==
    /\ Len(req) < MaxReq
    /\ IF ~Get(cfg.enableInlineCompletion, TRUE)
       THEN /\ req' = Append(req, [NewRequest(doc) EXCEPT !.enabled = FALSE, !.pc = "resolved"])
            /\ UNCHANGED <<debounceTimer, elapsed>>
       ELSE /\ req' = Append(clearTimeout(req, debounceTimer), NewRequest(doc))
            /\ debounceTimer' = Len(req) + 1
            /\ elapsed' = 0
    /\ UNCHANGED <<calls, shown, cache>>
    /\ UNCHANGED serviceVars
    /\ UNCHANGED <<viewVars, hostVars>>

\* the editor withdraws a request: its cancellation token becomes cancelled
CancelToken(r) ==
    /\ req[r].pc \in {"timer", "inflight"}
    /\ ~req[r].cancelled
    /\ req' = [req EXCEPT ![r].cancelled = TRUE]
    /\ UNCHANGED <<calls, shown, debounceTimer, cache, elapsed>>
    /\ UNCHANGED serviceVars
    /\ UNCHANGED <<viewVars, hostVars>>

callbackCatchRejecting(r) == [r EXCEPT !.pc = "rejected", !.threw = TRUE]

\* the catch block of the setTimeout callback: log and resolve([])
callbackCatch(r) == [r EXCEPT !.pc = "resolved", !.threw = TRUE, !.result = <<>>]

\* the debounce timer of request r fires: the setTimeout callback runs
TimerFire(r, docOk) ==
    /\ req[r].pc = "timer"
    /\ elapsed >= DebounceMs
    /\ LET g == generateCompletionStart(req[r], docOk)
       IN  CASE g.kind = "throw" ->
                  /\ req' = [req EXCEPT ![r] = callbackCatch(req[r])]
                  /\ UNCHANGED <<calls, cache>>
             [] g.kind = "return" ->
                  /\ req' = [req EXCEPT ![r].pc = "resolved", ![r].returned = g.value,
                                        ![r].result = resolveWith(req[r], g.value)]
                  /\ UNCHANGED <<calls, cache>>
             [] g.kind = "call" ->
                  LET c == generateResponse([kind |-> "inline", id |-> r],
                                            buildCompletionPrompt(req[r].doc),
                                            "inline-completion")
                  IN  /\ calls' = Append(calls, c)
                      /\ IF c.status = "inflight"
                         THEN req' = [req EXCEPT ![r].pc = "inflight"] /\ UNCHANGED cache
                         ELSE Resume(c)
    /\ UNCHANGED <<shown, debounceTimer, elapsed>>
    /\ UNCHANGED serviceVars
    /\ UNCHANGED <<viewVars, hostVars>>

\* ----------------------------------------------------------- specifications
PipelineConfigs == {UnsetConfig, [UnsetConfig EXCEPT !.provider = <<"ollama">>]}

\* the settings found at activation
InitConfigs ==
    {UnsetConfig,
     [UnsetConfig EXCEPT !.provider = <<"ollama">>],
     [UnsetConfig EXCEPT !.provider = <<"replicate">>, !.apiKey["replicate"] = <<"k1">>],
     [UnsetConfig EXCEPT !.apiKey["groq"] = <<"k1">>]}

\* the commands activate registers
ActivateCommands ==
    {"aiCodeAssistant.generateProject", "aiCodeAssistant.explainCode",
     "aiCodeAssistant.optimizeCode", "aiCodeAssistant.generateTests",
     "aiCodeAssistant.toggleInlineCompletion", "aiCodeAssistant.showChatPanel"}

\* after activate: its commands registered, an empty chat
InitHost ==
    /\ registered = ActivateCommands
    /\ chatHistory = <<>>
    /\ posted = <<>>
    /\ webview = [isThinking |-> FALSE, seen |-> 0]
    /\ generatedFiles = <<>>
    /\ progressCancelled = {}

\* no document with a comment suggestion, no function applied on its own
InitIdle ==
    /\ docLines = <<>>
    /\ arg = <<>>
    /\ ret = <<>>

InitCore(configs) ==
    /\ cfg \in configs
    /\ groqClient = initializeClients(cfg, <<>>, <<>>).groq
    /\ hfClient = initializeClients(cfg, <<>>, <<>>).hf
    /\ calls = <<>>
    /\ shown = <<>>
    /\ cfgChanges = 0
    /\ req = <<>>
    /\ debounceTimer = 0
    /\ cache = <<>>
    /\ elapsed = DebounceMs

InitWith(configs) == InitCore(configs) /\ InitHost /\ InitIdle

Init == InitWith(PipelineConfigs)

InitService == InitWith(InitConfigs)

\* the generation facade and a command caller, under settings updates
NextService ==
    \/ /\ cfgChanges < MaxServiceCfgChanges
       /\ \E s \in Settings : \E v \in SettingValues(s) : ConfigChange(s, v)
    \/ /\ Len(shown) + PendingCmds < MaxCmds
       /\ \E hasEditor \in BOOLEAN : \E sel \in {<<>>, <<"x">>} : ExplainCode(hasEditor, sel)
    \/ \E i \in DOMAIN calls : PollWake(i)
    \/ \E i \in DOMAIN calls : \E reply \in Replies :
          PendingBounded(calls[i], reply) /\ NetReply(i, reply)

SpecService == InitService /\ [][NextService]_vars

\* the inline completion pipeline over the generation facade, with a provider
\* that fails before any request (groq without a key) or one that answers
\* (ollama); the setting updated while it runs is the one the pipeline reads
PipelineSettings == {<<"enableInlineCompletion", "">>}

Next ==
    \/ /\ cfgChanges < MaxCfgChanges
       /\ \E s \in PipelineSettings : \E v \in SettingValues(s) : ConfigChange(s, v)
    \/ \E doc \in Docs : Trigger(doc)
    \/ Tick
    \/ \E r \in DOMAIN req : CancelToken(r)
    \/ \E r \in DOMAIN req : \E docOk \in BOOLEAN : TimerFire(r, docOk)
    \/ \E i \in DOMAIN calls : \E reply \in PipelineReplies : NetReply(i, reply)

Spec == Init /\ [][Next]_vars

\* the pipeline late in a session: earlier requests have left the cache one
\* short of full or full; its oldest entry is the one a request at "x=" made,
\* the others were made at other cursor positions
Digits == <<"0", "1", "2", "3", "4", "5", "6", "7", "8", "9">>

EarlierKey(n) == <<"typescript", ":", Digits[(n \div 10) + 1], Digits[(n % 10) + 1]>>

EarlierCache(n) ==
    [i \in 1..n |->
        IF i = 1
        THEN [key |-> <<"typescript", ":", "x", "=">>,
              value |-> cleanCompletion(<<"x", "=", "5", ";">>, <<"x", "=">>)]
        ELSE [key |-> EarlierKey(i - 1), value |-> <<"1">>]]

InitCache ==
    /\ cfg = [UnsetConfig EXCEPT !.provider = <<"ollama">>]
    /\ groqClient = initializeClients(cfg, <<>>, <<>>).groq
    /\ hfClient = initializeClients(cfg, <<>>, <<>>).hf
    /\ calls = <<>>
    /\ shown = <<>>
    /\ cfgChanges = 0
    /\ req = <<>>
    /\ debounceTimer = 0
    /\ cache \in {EarlierCache(CacheCapacity - 1), EarlierCache(CacheCapacity)}
    /\ elapsed = DebounceMs
    /\ InitHost /\ InitIdle

NextCache ==
    \/ \E doc \in Docs : Trigger(doc)
    \/ Tick
    \/ \E r \in DOMAIN req : CancelToken(r)
    \/ \E r \in DOMAIN req : \E docOk \in BOOLEAN : TimerFire(r, docOk)
    \/ \E i \in DOMAIN calls : \E reply \in PipelineReplies : NetReply(i, reply)

SpecCache == InitCache /\ [][NextCache]_vars

\* one command under the replicate provider with a key, followed through the
\* whole poll loop: the backend answers each status check as it likes
InitPoll ==
    InitWith({[UnsetConfig EXCEPT !.provider = <<"replicate">>, !.apiKey["replicate"] = <<"k1">>]})

NextPoll ==
    \/ /\ Len(shown) + PendingCmds < MaxPollCalls
       /\ \E hasEditor \in BOOLEAN : \E sel \in {<<>>, <<"x">>} : ExplainCode(hasEditor, sel)
    \/ \E i \in DOMAIN calls : PollWake(i)
    \/ \E i \in DOMAIN calls : \E reply \in Replies : NetReply(i, reply)

SpecPoll == InitPoll /\ [][NextPoll]_vars

\* the comment detector applied to one line of a document
DetectLines ==
    {Chars("// create a function to validate email addresses"),
     Chars("// just a note"),
     Chars("// hello world"),
     Chars("// information"),
     Chars("// TODO"),
     Chars("// ok"),
     Chars("//"),
     Chars("//   "),
     Chars("let x = 1; // parse the input"),
     Chars("x = 1"),
     Chars("# sort the list"),
     Chars("<!-- create a form -->"),
     Chars("/* format */"),
     Chars("/*/")}

DetectLanguages == {"typescript", "go", "python", "html", "css", "plaintext"}

InitDetect ==
    /\ InitCore({UnsetConfig}) /\ InitHost
    /\ docLines = <<>>
    /\ arg \in {<<[lineText |-> l, lineNumber |-> 1, language |-> lang]>> :
                    l \in DetectLines, lang \in DetectLanguages}
    /\ ret = <<>>

\* the editor asks the comment provider for the completion items of the line
ProvideCompletionItems ==
    /\ arg # <<>> /\ ret = <<>>
    /\ ret' = <<provideCompletionItems(arg[1].lineText, arg[1].lineNumber, arg[1].language)>>
    /\ UNCHANGED <<projectVars, arg>>
    /\ UNCHANGED <<calls, shown>>
    /\ UNCHANGED <<serviceVars, pipelineVars, viewVars>>

NextDetect == ProvideCompletionItems

SpecDetect == InitDetect /\ [][NextDetect]_vars

\* a document with a comment line, and the comment provider asked about one
\* of its lines
CommentDocs ==
    {[languageId |-> lang, text |-> <<Chars("x = 1"), ind \o l>>] :
        lang \in {"typescript", "python"},
        ind \in {<<>>, Chars("  ")},
        l \in {Chars("// create a function to validate email addresses"),
               Chars("# sort the list"),
               Chars("// parse the input"),
               Chars("// hello world")}}

InitComment ==
    /\ InitCore(PipelineConfigs) /\ InitHost
    /\ \E d \in CommentDocs : \E n \in DOMAIN d.text :
          /\ docLines = d.text
          /\ arg = <<[lineText |-> d.text[n], lineNumber |-> n, language |-> d.languageId]>>
    /\ ret = <<>>

\* the handler of aiCodeAssistant.generateFromComment, up to its first
\* suspension inside generateFromComment
generateFromCommentCommand(lineNumber, comment, language) ==
    LET c == generateResponse([kind |-> "comment", id |-> Len(calls) + 1, lineNumber |-> lineNumber],
                              [language |-> language, comment |-> comment], "comment-to-code")
    IN  /\ calls' = Append(calls, c)
        /\ IF c.status = "inflight"
           THEN UNCHANGED <<shown, req, cache>> /\ UNCHANGED viewVars
           ELSE Resume(c)

\* the user accepts the offered completion item: the editor runs its command
AcceptSuggestion ==
    /\ ret # <<>> /\ ret[1] # <<>>
    /\ LET item == ret[1][1]
       IN  IF item.command \in registered
           THEN generateFromCommentCommand(item.arguments.lineNumber, item.arguments.comment,
                                           item.arguments.language)
           ELSE /\ shown' = Append(shown, [kind |-> "error",
                                           text |-> <<"command not found: ", item.command>>])
                /\ UNCHANGED <<calls, req, cache>>
                /\ UNCHANGED viewVars
    /\ ret' = <<>>
    /\ UNCHANGED <<projectVars, arg>>
    /\ UNCHANGED <<debounceTimer, elapsed>>
    /\ UNCHANGED serviceVars

NextComment ==
    \/ ProvideCompletionItems
    \/ Len(shown) < MaxAccepts /\ AcceptSuggestion

SpecComment == InitComment /\ [][NextComment]_vars

\* the chat panel: messages of the webview, answered by the vendor
ChatTexts == {Chars(" "), Chars("a"), Chars("b")}

\* the vendor's answer to a chat prompt
Answer(text) == Chars("re:") \o text

\* handleChatMessage up to its first suspension
handleChatMessage(text) ==
    IF trim(text) = <<>>
    THEN UNCHANGED <<calls, chatHistory, posted>>
    ELSE LET history == Append(chatHistory, [role |-> "user", content |-> text])
             msgs == posted \o <<[type |-> "userMessage", content |-> text],
                                 [type |-> "thinking", thinking |-> TRUE]>>
             c == generateResponse([kind |-> "chat", id |-> Len(calls) + 1],
                                   [text |-> text], "chat")
         IN  /\ calls' = Append(calls, c)
             /\ IF c.status = "inflight"
                THEN chatHistory' = history /\ posted' = msgs
                ELSE /\ chatHistory' = chatSettled(history, msgs, c).history
                     /\ posted' = chatSettled(history, msgs, c).posted

\* the webview's sendMessage(), which posts a text that is not blank unless
\* the panel shows the thinking indicator, and then handleMessage, case
\* sendMessage
SendMessage(text) ==
    /\ trim(text) # <<>> /\ ~webview.isThinking
    /\ handleChatMessage(text)
    /\ UNCHANGED <<shown, docLines, webview>>
    /\ UNCHANGED <<serviceVars, pipelineVars, hostVars>>

\* a sendMessage event is posted to the panel, with whatever text its
\* sender gives it
PostSendMessage(text) ==
    /\ arg = <<>>
    /\ arg' = <<[type |-> "sendMessage", text |-> text]>>
    /\ UNCHANGED <<calls, shown, ret>>
    /\ UNCHANGED <<serviceVars, pipelineVars, viewVars, projectVars>>

\* handleMessage takes the event, case sendMessage
HandleMessage ==
    /\ arg # <<>> /\ arg[1].type = "sendMessage"
    /\ handleChatMessage(arg[1].text)
    /\ arg' = <<>>
    /\ UNCHANGED <<shown, docLines, webview, ret>>
    /\ UNCHANGED <<serviceVars, pipelineVars, projectVars>>

\* the webview's clear button, and then handleMessage, case clearChat
ClearChat ==
    /\ chatHistory' = <<>>
    /\ posted' = Append(posted, [type |-> "clearChat"])
    /\ UNCHANGED <<calls, shown, docLines, webview>>
    /\ UNCHANGED <<serviceVars, pipelineVars, hostVars>>

\* the webview's message listener takes the next posted message; a thinking
\* message sets isThinking, which blocks and unblocks sending
WebviewReceive ==
    /\ webview.seen < Len(posted)
    /\ LET message == posted[webview.seen + 1]
       IN  webview' = [isThinking |-> IF message.type = "thinking" THEN message.thinking
                                      ELSE webview.isThinking,
                       seen |-> webview.seen + 1]
    /\ UNCHANGED <<calls, shown, docLines, chatHistory, posted>>
    /\ UNCHANGED <<serviceVars, pipelineVars, hostVars>>

\* the messages of the given type posted so far
Posted(type) == {i \in DOMAIN posted : posted[i].type = type}

NextChat ==
    \/ /\ Cardinality(Posted("userMessage")) < MaxChatMsgs
       /\ \E text \in ChatTexts : SendMessage(text)
    \/ /\ Cardinality(Posted("clearChat")) < MaxClears
       /\ ClearChat
    \/ WebviewReceive
    \/ \E i \in DOMAIN calls : NetReply(i, [kind |-> "error"])
    \/ \E i \in DOMAIN calls :
          NetReply(i, [kind |-> "body", shape |-> "full", text |-> Answer(calls[i].prompt.text)])

SpecChat == Init /\ [][NextChat]_vars

\* the chat handler on its own, under any sendMessage events
NextChatHandler ==
    \/ /\ Len(calls) < MaxChatMsgs
       /\ \E text \in ChatTexts : PostSendMessage(text)
    \/ HandleMessage
    \/ \E i \in DOMAIN calls : NetReply(i, [kind |-> "error"])
    \/ \E i \in DOMAIN calls :
          NetReply(i, [kind |-> "body", shape |-> "full", text |-> Answer(calls[i].prompt.text)])

SpecChatHandler == Init /\ [][NextChatHandler]_vars

\* ------------------------------------------------------- facade properties
\* the call a step has just added to the log
NewCall == calls'[Len(calls')]

CallIssued == Len(calls') = Len(calls) + 1

KeyNotConfigured(p) ==
    CASE p = "groq" -> <<"Groq API key not configured">>
      [] p = "perplexity" -> <<"Perplexity API key not configured">>
      [] p = "huggingface" -> <<"HuggingFace API key not configured">>
      [] p = "togetherai" -> <<"Together AI API key not configured">>
      [] p = "replicate" -> <<"Replicate API key not configured">>

\* C1: a generateResponse call made while a key-based provider is active and
\* its apiKey setting is empty or unset fails with that provider's 'API key
\* not configured' error and sends nothing over the network, whatever
\* settings updates came before.
C1_MissingKeyFailsFast ==
    [][\A p \in KeyProviders :
          (CallIssued /\ Get(cfg.provider, DefaultProvider) = p /\ ~Truthy(cfg.apiKey[p]))
          => (NewCall.status = "error" /\ NewCall.error = KeyNotConfigured(p) /\ NewCall.net = 0)]_vars

\* C8: a call made with a provider value outside the six supported ones
\* fails with an error whose message contains that value, invokes no adapter
\* and sends nothing over the network.
C8_UnsupportedProvider ==
    \A i \in DOMAIN calls :
        calls[i].provider \notin Providers
        => /\ calls[i].status = "error"
           /\ calls[i].provider \in Range(calls[i].error)
           /\ calls[i].adapters = <<>>
           /\ calls[i].net = 0

C8_Witness ==
    \E i \in DOMAIN calls : calls[i].provider \in UnknownProviders /\ calls[i].status = "error"

\* C9: every call invokes the adapter of the provider it read, once, and no
\* other; when the adapter throws, the call fails with that same error and
\* the adapter is not invoked again.
C9_OneAdapterNoRetry ==
    \A i \in DOMAIN calls :
        /\ calls[i].provider \in Providers => calls[i].adapters = <<calls[i].provider>>
        /\ calls[i].thrown # <<>>
           => /\ calls[i].status = "error"
              /\ calls[i].error = calls[i].thrown
              /\ calls[i].provider \notin {"replicate"} => calls[i].net <= 1

C9_Witness ==
    \E i \in DOMAIN calls :
        /\ calls[i].adapters # <<>> /\ calls[i].net = 1
        /\ calls[i].status = "error" /\ calls[i].error = <<"Network Error">>

\* C10: a call uses the provider, maxTokens, temperature and model that the
\* settings hold when it is made, also when an earlier call read other values.
C10_SettingsReadAtCallTime ==
    [][CallIssued =>
          LET p == Get(cfg.provider, DefaultProvider)
          IN  /\ NewCall.provider = p
              /\ NewCall.maxTokens = Get(cfg.maxTokens, DefaultMaxTokens)
              /\ NewCall.temperature = Get(cfg.temperature, DefaultTemperatureX10)
              /\ p \in Providers => NewCall.adapters = <<p>>
              /\ NewCall.net > 0 => NewCall.model = Get(cfg.model[p], DefaultModel(p))
              /\ (NewCall.net > 0 /\ p = "ollama") => NewCall.url = Get(cfg.baseUrl, DefaultBaseUrl)]_vars

C10_Witness ==
    \E i, j \in DOMAIN calls :
        /\ i < j /\ calls[i].net > 0 /\ calls[j].net > 0
        /\ \/ calls[i].provider # calls[j].provider
           \/ calls[i].maxTokens # calls[j].maxTokens
           \/ calls[i].temperature # calls[j].temperature
           \/ calls[i].model # calls[j].model

\* ----------------------------------------------------- pipeline properties
\* the generateResponse calls made for request r
InlineCalls(r) ==
    {k \in DOMAIN calls : calls[k].caller.kind = "inline" /\ calls[k].caller.id = r}

\* request j is the next enabled trigger after request i
NextTrigger(i, j) ==
    /\ i < j /\ req[i].enabled /\ req[j].enabled
    /\ \A k \in DOMAIN req : (i < k /\ k < j) => ~req[k].enabled

\* request r has entered generateCompletion
Ran(r) == req[r].enabled /\ (req[r].pc \in {"inflight", "resolved"}) /\ ~req[r].threw

\* this step is the setTimeout callback of request r starting to run
CallbackRuns(r) == req[r].pc = "timer" /\ req'[r].pc \in {"inflight", "resolved"}

\* C2: with inline completion enabled, a trigger that arrives less than
\* 300 ms after the previous one cancels that one's timer before it fires;
\* a request whose timer was cancelled never runs generateCompletion and
\* never calls generateResponse, so of a burst of triggers only the last
\* runs, and at most one debounce timer is pending at any time.
C2_DebounceLastOnly ==
    [][/\ Cardinality({r \in DOMAIN req' : req'[r].pc = "timer"}) <= 1
       /\ (Len(req') = Len(req) + 1 /\ req'[Len(req')].enabled
             /\ debounceTimer # 0 /\ elapsed < DebounceMs)
          => (req'[debounceTimer].pc = "cleared" /\ InlineCalls(debounceTimer) = {})
       /\ \A r \in DOMAIN req :
             req[r].pc = "cleared"
             => (req'[r] = req[r] /\ \A k \in DOMAIN calls' : calls'[k].caller # [kind |-> "inline", id |-> r])]_vars

C2_Witness ==
    \E i, j \in DOMAIN req :
        /\ NextTrigger(i, j)
        /\ req[i].pc = "cleared" /\ InlineCalls(i) = {}
        /\ req[j].pc = "resolved" /\ InlineCalls(j) # {}

\* C3: once a newer trigger has occurred, an older request that has not
\* finished (its timer fired and its generation call is still in flight)
\* produces no suggestion and writes nothing to the completion cache.
C3_SupersededAbandoned ==
    [][\A i \in DOMAIN req :
          (req[i].pc \in {"timer", "inflight"} /\ \E j \in DOMAIN req : j > i /\ req[j].enabled)
          => (req'[i].result = <<>> /\ ~req'[i].stored /\ (req'[i] # req[i] => cache' = cache))]_vars

\* C4: a request whose cancellation token is cancelled before its
\* generation call completes neither returns the generated result as a
\* suggestion nor stores it in the completion cache.
C4_CancelledDiscarded ==
    [][\A i \in DOMAIN req :
          (req[i].pc \in {"timer", "inflight"} /\ req[i].cancelled)
          => (req'[i].result = <<>> /\ ~req'[i].stored /\ (req'[i].pc = "resolved" => cache' = cache))]_vars

\* C5 as stated: of two requests with the same fingerprint that reach
\* generateCompletion, the first of which called generateResponse, the second
\* makes no call and returns what the first returned, whatever that was and
\* whether or not the first had finished.
C5_OneCallPerFingerprint ==
    \A i, j \in DOMAIN req :
        (i < j /\ Ran(i) /\ Ran(j) /\ cacheKey(req[i].doc) = cacheKey(req[j].doc)
           /\ InlineCalls(i) # {} /\ req[j].pc = "resolved")
        => (InlineCalls(j) = {} /\ req[j].returned = req[i].returned)

\* C5 amended: a request that runs generateCompletion, is not in the middle
\* of a word, and finds its fingerprint in the cache makes no generateResponse
\* call and returns the cached value unchanged, leaving the cache as it was;
\* an entry is in the cache only for a generation that returned text that is
\* not blank, so after an empty, failed or unfinished first generation the
\* second request with the same fingerprint makes a call of its own unless
\* it is on a blank line or already cancelled.
C5_CachedFingerprintSkipsCall ==
    [][\A r \in DOMAIN req :
          (CallbackRuns(r) /\ ~req'[r].threw /\ ~midWord(req[r].doc))
          => LET key == cacheKey(req[r].doc)
             IN  IF cacheHas(cache, key)
                 THEN /\ calls' = calls /\ cache' = cache
                      /\ req'[r].pc = "resolved"
                      /\ req'[r].returned = <<cacheGet(cache, key)>>
                 ELSE (~blankLine(req[r].doc) /\ ~req[r].cancelled)
                      => (Len(calls') = Len(calls) + 1 /\ NewCall.caller = [kind |-> "inline", id |-> r])]_vars

C5_Witness ==
    \E i, j \in DOMAIN req :
        /\ i < j /\ cacheKey(req[i].doc) = cacheKey(req[j].doc)
        /\ req[i].stored /\ InlineCalls(i) # {}
        /\ req[j].pc = "resolved" /\ ~req[j].threw /\ InlineCalls(j) = {}
        /\ req[j].returned = req[i].returned /\ req[j].returned # <<>>

\* C7: when the generation call of a request fails, or another step of
\* generateCompletion throws, the promise of the request resolves with an
\* empty list, is never rejected, and the cache is left as it was.
C7_FailureResolvesEmpty ==
    [][\A r \in DOMAIN req :
          (req[r].pc \in {"timer", "inflight"}
             /\ \/ req'[r].threw
                \/ \E k \in DOMAIN calls' :
                      /\ calls'[k].caller = [kind |-> "inline", id |-> r]
                      /\ calls'[k].status = "error")
          => (req'[r].pc = "resolved" /\ req'[r].result = <<>> /\ ~req'[r].stored /\ cache' = cache)]_vars

C7_Witness ==
    /\ \E r \in DOMAIN req : req[r].threw /\ req[r].pc = "resolved" /\ req[r].result = <<>>
    /\ \E r \in DOMAIN req :
          /\ req[r].pc = "resolved" /\ req[r].result = <<>>
          /\ \E k \in InlineCalls(r) : calls[k].status = "error" /\ calls[k].net = 1

\* the keys of a cache in insertion order
Keys(c) == [i \in DOMAIN c |-> c[i].key]

\* C6: the cache never holds more than 100 entries; a store of a new
\* fingerprint into a full cache removes exactly the entry inserted earliest
\* and appends the new one, a store below capacity only appends, a store of
\* a present fingerprint keeps the order, and nothing else (a cache hit in
\* particular) changes which entries are held or their order.
C6_BoundedInsertionOrder ==
    [][/\ Len(cache') <= CacheCapacity
       /\ \A r \in DOMAIN req :
             (~req[r].stored /\ req'[r].stored)
             => /\ cacheHas(cache', cacheKey(req[r].doc))
                /\ <<cacheGet(cache', cacheKey(req[r].doc))>> = req'[r].returned
       /\ Keys(cache') # Keys(cache)
          => \E r \in DOMAIN req :
                LET k == cacheKey(req[r].doc)
                IN  /\ ~req[r].stored /\ req'[r].stored
                    /\ ~cacheHas(cache, k)
                    /\ Keys(cache') = IF Len(cache) = CacheCapacity
                                      THEN Append(Tail(Keys(cache)), k)
                                      ELSE Append(Keys(cache), k)]_vars

\* a request at "x=" was answered from the cache, and the next store into
\* the full cache still evicted that entry
C6_Witness ==
    /\ Len(cache) = CacheCapacity
    /\ ~cacheHas(cache, <<"typescript", ":", "x", "=">>)
    /\ \E i, j \in DOMAIN req :
          /\ i < j
          /\ cacheKey(req[i].doc) = <<"typescript", ":", "x", "=">>
          /\ req[i].pc = "resolved" /\ InlineCalls(i) = {} /\ req[i].returned = << <<"5", ";">> >>
          /\ req[j].stored

\* ------------------------------------------------- client handle properties
\* the handle the current settings call for: built from the key when one is
\* set, absent otherwise
HandleFor(key) == IF Truthy(key) THEN <<key[1]>> ELSE <<>>

\* C11: after every configuration-change notification each long-lived client
\* handle (groq, huggingface) reflects exactly the current configuration: it
\* is built from the configured key when a key is set and absent when none is.
C11_HandlesReflectConfig ==
    /\ groqClient = HandleFor(cfg.apiKey["groq"])
    /\ hfClient = HandleFor(cfg.apiKey["huggingface"])

\* ---------------------------------------------------- poll loop properties
\* the status checks call c has sent (its first request creates the job)
StatusChecks(c) == c.net - 1

\* the last status report call c received says st
Reported(c, st) == c.statusResponse # <<>> /\ c.statusResponse[1].status = st

\* the text of the fragments of the last status report of call c
ReportedText(c) ==
    IF c.statusResponse[1].output = <<>> THEN <<>> ELSE Join(c.statusResponse[1].output[1])

C13_TerminalStopsPolling ==
    \A i \in DOMAIN calls :
        LET c == calls[i]
        IN  /\ Reported(c, "succeeded")
               => (c.phase = "done" /\ c.status = "ok" /\ c.result = ReportedText(c))
            /\ Reported(c, "failed")
               => (c.phase = "done" /\ c.status = "error"
                   /\ c.error = <<"Replicate prediction failed">>)

\* ----------------------------------------------------- adapter properties
\* C14: for the key-based adapters that make one request (groq, perplexity,
\* huggingface, togetherai), a successful response that lacks the generated
\* text at any level (no text field, no message, an empty choices list, no
\* choices list, no output object) makes the call return the empty string
\* and not fail.
C14_MissingTextIsEmpty ==
    \A i \in DOMAIN calls :
        (calls[i].provider \in {"groq", "perplexity", "huggingface", "togetherai"}
           /\ calls[i].body # <<>> /\ calls[i].body[1] # "full")
        => (calls[i].status = "ok" /\ calls[i].result = <<>>)

\* ------------------------------------------------ comment detector properties
SlashLanguages ==
    {"javascript", "typescript", "java", "csharp", "cpp", "c", "go", "rust", "php"}

\* the comment body of a //-comment line: what follows the first //, trimmed
SlashBody(lineText) ==
    LET i == indexOf(lineText, Chars("//"), 1)
    IN  IF i = 0 THEN <<>> ELSE trim(SubSeq(lineText, i + 2, Len(lineText)))

\* the body contains one of the code-generation keywords as it is written
ContainsKeyword(body) ==
    \E k \in DOMAIN codeGenKeywords : includes(body, Chars(codeGenKeywords[k]))

\* C15: in a language with //-comments the detector offers a suggestion for
\* '// create a function to validate email addresses' and none for
\* '// just a note'; a comment body that contains none of the
\* code-generation keywords gets no suggestion.
C15_DetectorKeywords ==
    (arg # <<>> /\ ret # <<>> /\ arg[1].language \in SlashLanguages)
    => /\ arg[1].lineText = Chars("// create a function to validate email addresses")
          => Len(ret[1]) = 1
       /\ arg[1].lineText = Chars("// just a note") => ret[1] = <<>>
       /\ ~ContainsKeyword(SlashBody(arg[1].lineText)) => ret[1] = <<>>

\* ------------------------------------------------- comment command properties
\* this step is the user accepting an offered suggestion
SuggestionAccepted == ret # <<>> /\ ret[1] # <<>> /\ ret' = <<>>

\* C16: after activation, accepting the detector's suggestion runs a
\* registered generate-from-comment handler, which issues exactly one
\* generation call with the task kind comment-to-code (and then replaces the
\* comment line with the generated text, indented like that line).
C16_AcceptRunsHandler ==
    [][SuggestionAccepted
       => /\ ret[1][1].command \in registered
          /\ CallIssued
          /\ NewCall.type = "comment-to-code"]_vars

\* ------------------------------------------------------ chat properties
\* the user messages of the history carry pairwise different texts
DistinctUserTexts ==
    \A i, j \in DOMAIN chatHistory :
        (i # j /\ chatHistory[i].role = "user" /\ chatHistory[j].role = "user")
        => chatHistory[i].content # chatHistory[j].content

\* entry j of the history is the reply to the user message at entry i
ReplyTo(i, j) ==
    /\ chatHistory[i].role = "user" /\ chatHistory[j].role = "assistant"
    /\ chatHistory[j].content = Answer(chatHistory[i].content)

\* C17: whatever the interleaving of sendMessage events and generation
\* completions, the history is in send order: the reply to a user message,
\* when there is one, is the entry right after that message.
C17_HistoryInSendOrder ==
    DistinctUserTexts
    => \A i, j \in DOMAIN chatHistory : ReplyTo(i, j) => j = i + 1

\* the position of the last clearChat posted to the webview, 0 if none
LastClear ==
    IF Posted("clearChat") = {} THEN 0
    ELSE CHOOSE i \in Posted("clearChat") : \A j \in Posted("clearChat") : j <= i

\* C18: a generation in flight when the chat is cleared is abandoned: until
\* the next sendMessage the history stays empty and no assistantMessage is
\* posted.
C18_ClearAbandonsGeneration ==
    (LastClear # 0 /\ \A i \in Posted("userMessage") : i < LastClear)
    => /\ chatHistory = <<>>
       /\ \A i \in Posted("assistantMessage") : i < LastClear

\* ---------------------------------------------------------------------------
\* ProjectGeneratorProvider: the tree of generated files

MaxFiles == 4

\* a path without its trailing slash
folderOf(path) == join(pathParts(path), "/")

\* the lists of at most n entries of a well-formed project: no entry twice,
\* no folder declared twice
RECURSIVE FileLists(_)
FileLists(n) ==
    IF n = 0 THEN {<<>>}
    ELSE LET shorter == FileLists(n - 1)
         IN  shorter \cup
             UNION {{Append(l, e) :
                        e \in {f \in ProjectEntries :
                                  \A i \in DOMAIN l : folderOf(l[i].path) # folderOf(f.path)}} :
                    l \in {s \in shorter : Len(s) = n - 1}}

InitTree ==
    /\ InitCore({UnsetConfig}) /\ InitHost
    /\ docLines = <<>>
    /\ arg \in {<<files>> : files \in FileLists(MaxFiles)}
    /\ ret = <<>>

\* parseGeneratedProject hands the files of the parsed response to buildFileTree
ParseGeneratedProject ==
    /\ arg # <<>> /\ ret = <<>>
    /\ ret' = <<buildFileTree(arg[1])>>
    /\ UNCHANGED <<projectVars, arg>>
    /\ UNCHANGED <<calls, shown>>
    /\ UNCHANGED <<serviceVars, pipelineVars, viewVars>>

NextTree == ParseGeneratedProject

SpecTree == InitTree /\ [][NextTree]_vars

\* the nodes reachable from the top-level list: the top-level nodes and the
\* children of the folders among them, each with the path of its parent
Reachable(tree) ==
    {[node |-> tree[t], at |-> <<t>>, parent |-> <<>>] : t \in DOMAIN tree}
    \cup UNION {{[node |-> tree[t].children[k], at |-> <<t, k>>, parent |-> <<tree[t].path>>] :
                    k \in DOMAIN tree[t].children} :
                t \in {u \in DOMAIN tree : tree[u].type = "folder"}}

dirOf(path) ==
    LET parts == pathParts(path) IN join(SubSeq(parts, 1, Len(parts) - 1), "/")

\* C19: the tree built from a well-formed file list contains every entry
\* exactly once, every file of a folder as a child of the node of that folder
\* and every other file at the top level, and no folder twice
C19_TreeHoldsEveryEntryOnce ==
    (arg # <<>> /\ ret # <<>>)
    => LET files == arg[1]
           reached == Reachable(ret[1])
       IN  /\ \A i \in DOMAIN files :
                 Cardinality({n \in reached : /\ n.node.path = files[i].path
                                              /\ n.node.type = files[i].type}) = 1
           /\ \A n \in reached :
                 n.node.type = "file"
                 => IF dirOf(n.node.path) = <<>> THEN n.parent = <<>>
                    ELSE n.parent # <<>> /\ folderOf(n.parent[1]) = dirOf(n.node.path)
           /\ \A m, n \in reached :
                 (m.node.type = "folder" /\ n.node.type = "folder" /\ m.at # n.at)
                 => folderOf(m.node.path) # folderOf(n.node.path)

\* ---------------------------------------------------------------------------
\* InlineCompletionProvider: cleaning of the raw model output

\* line prefixes as generateCompletion takes them from the document: with
\* and without indentation and trailing blanks, and the empty line
LinePrefixes ==
    {Chars("const x = "), Chars("x = "), Chars("x="), Chars("  x="), Chars("  x = "),
     Chars("f( "), Chars("f("), Chars("  "), <<>>}

\* code a model writes inside a fenced block: on the line of the fences, and
\* on a line of its own after a language tag
FencedCode == {Chars("5;"), Chars("ts\n5;\n")}

\* what the model writes for the rest of the line, bare or as a fenced block
Continuations ==
    {Chars("5;"), Chars("y"), Chars("g(1)"), Chars("x=1"), Chars(" 5;"), Chars("5; ")}
    \cup {Fence \o code \o Fence : code \in FencedCode}

\* raw model outputs: the continuation, alone or after an echo of the prefix
InitClean ==
    /\ InitCore({UnsetConfig}) /\ InitHost
    /\ docLines = <<>>
    /\ arg \in {<<[linePrefix |-> p, echoed |-> e, continuation |-> t,
                   completion |-> (IF e THEN p ELSE <<>>) \o t]>> :
                    p \in LinePrefixes, e \in BOOLEAN, t \in Continuations}
    /\ ret = <<>>

\* generateCompletion cleans the response of the service
CleanCompletion ==
    /\ arg # <<>> /\ ret = <<>>
    /\ ret' = <<cleanCompletion(arg[1].completion, arg[1].linePrefix)>>
    /\ UNCHANGED <<projectVars, arg>>
    /\ UNCHANGED <<calls, shown>>
    /\ UNCHANGED <<serviceVars, pipelineVars, viewVars>>

NextClean == CleanCompletion

SpecClean == InitClean /\ [][NextClean]_vars

\* C20: when the raw output is an echo of the line prefix followed by a
\* continuation that has no blanks around it and no fences, the cleaned
\* result is exactly that continuation, also for a prefix with trailing
\* whitespace
C20_EchoedPrefixRemoved ==
    (/\ arg # <<>> /\ ret # <<>>
     /\ arg[1].echoed
     /\ trim(arg[1].linePrefix) # <<>>
     /\ trim(arg[1].continuation) = arg[1].continuation
     /\ ~includes(arg[1].continuation, Fence))
    => ret[1] = arg[1].continuation

\* ---------------------------------------------------------------------------
\* the settings update of this step touches only credentials of providers
\* other than the active one p: their apiKey, and the baseUrl unless p is ollama
OnlyOtherCredentialsChange(p) ==
    /\ cfg' # cfg
    /\ [cfg' EXCEPT !.apiKey = cfg.apiKey, !.baseUrl = cfg.baseUrl] = cfg
    /\ p \in KeyProviders => cfg'.apiKey[p] = cfg.apiKey[p]
    /\ p = "ollama" => cfg'.baseUrl = cfg.baseUrl

MaxRuns == 2

\* the aiCodeAssistant.optimizeCode command; the selection is line
\* lineNumber of the document, or nothing when lineNumber is 0
OptimizeCode(hasEditor, lineNumber) ==
    /\ IF ~hasEditor
       THEN /\ shown' = Append(shown, [kind |-> "error", text |-> <<"No active editor found">>])
            /\ UNCHANGED <<calls, docLines>>
       ELSE IF lineNumber = 0 \/ docLines[lineNumber] = <<>>
       THEN /\ shown' = Append(shown, [kind |-> "error", text |-> <<"No code selected">>])
            /\ UNCHANGED <<calls, docLines>>
       ELSE LET c == generateResponse([kind |-> "optimize", id |-> Len(calls) + 1,
                                       lineNumber |-> lineNumber],
                                      [text |-> docLines[lineNumber]], "code-optimization")
            IN  /\ calls' = Append(calls, c)
                /\ IF c.status = "inflight" THEN UNCHANGED <<shown, docLines>> ELSE Resume(c)
    /\ UNCHANGED <<chatHistory, posted, webview>>
    /\ UNCHANGED <<serviceVars, pipelineVars, hostVars>>

\* the aiCodeAssistant.generateTests command
GenerateTests(hasEditor) ==
    /\ IF ~hasEditor
       THEN /\ shown' = Append(shown, [kind |-> "error", text |-> <<"No active editor found">>])
            /\ UNCHANGED calls
       ELSE LET c == generateResponse([kind |-> "tests", id |-> Len(calls) + 1],
                                      [language |-> "typescript", code |-> join(docLines, "\n")],
                                      "test-generation")
            IN  /\ calls' = Append(calls, c)
                /\ IF c.status = "inflight" THEN UNCHANGED shown ELSE Resume(c)
    /\ UNCHANGED <<serviceVars, pipelineVars, viewVars, hostVars>>

\* a generateProject that empties the tree before it asks for the new one
GenerateProjectClearing(prompt) ==
    /\ prompt # <<>>
    /\ LET c == generateResponse([kind |-> "project", id |-> Len(calls) + 1],
                                 [description |-> prompt], "project-generation")
       IN  /\ calls' = Append(calls, c)
           /\ IF c.status = "inflight"
              THEN /\ generatedFiles' = <<>>
                   /\ UNCHANGED <<shown, registered, progressCancelled>>
              ELSE Resume(c)
    /\ UNCHANGED <<arg, ret>>
    /\ UNCHANGED <<serviceVars, pipelineVars, viewVars>>

\* the aiCodeAssistant.generateProject command with a description typed into
\* the input box: generateProject up to the await of generateResponse
GenerateProject(prompt) ==
    /\ prompt # <<>>
    /\ LET c == generateResponse([kind |-> "project", id |-> Len(calls) + 1],
                                 [description |-> prompt], "project-generation")
       IN  /\ calls' = Append(calls, c)
           /\ IF c.status = "inflight"
              THEN UNCHANGED <<shown, projectVars>>
              ELSE Resume(c)
    /\ UNCHANGED <<arg, ret>>
    /\ UNCHANGED <<serviceVars, pipelineVars, viewVars>>

\* the user presses Cancel on the progress notification of a generateProject run
CancelProgress(i) ==
    /\ calls[i].caller.kind = "project" /\ calls[i].status = "inflight"
    /\ i \notin progressCancelled
    /\ progressCancelled' = progressCancelled \cup {i}
    /\ UNCHANGED <<calls, shown, registered, generatedFiles, arg, ret>>
    /\ UNCHANGED <<serviceVars, pipelineVars, viewVars>>

\* what a vendor answers the commands with: code, a project document, prose
CommandTexts == {Chars("y"), Chars("{A}"), Chars("see {B} above")}

InitCommands ==
    /\ InitCore(PipelineConfigs) /\ InitHost
    /\ docLines = <<Chars("x=1"), <<>> >>
    /\ arg = <<>>
    /\ ret = <<>>

NextCommands ==
    \/ /\ Len(calls) < MaxRuns /\ Len(shown) < MaxRuns
       /\ \/ \E hasEditor \in BOOLEAN : \E sel \in {<<>>, <<"x">>} : ExplainCode(hasEditor, sel)
          \/ \E hasEditor \in BOOLEAN : \E lineNumber \in 0..Len(docLines) :
                OptimizeCode(hasEditor, lineNumber)
          \/ \E hasEditor \in BOOLEAN : GenerateTests(hasEditor)
          \/ GenerateProject(Chars("p"))
    \/ \E i \in DOMAIN calls : CancelProgress(i)
    \/ \E i \in DOMAIN calls : NetReply(i, [kind |-> "error"])
    \/ \E i \in DOMAIN calls : \E t \in CommandTexts :
          NetReply(i, [kind |-> "body", shape |-> "full", text |-> t])

SpecCommands == InitCommands /\ [][NextCommands]_vars

CommandCallers == {"explain", "optimize", "tests", "project"}

\* the calls of command callers that fail in this step: a call that is made
\* and fails at once, or a call in flight whose reply makes it fail
FailingNow ==
    {i \in DOMAIN calls' :
        /\ calls'[i].caller.kind \in CommandCallers
        /\ calls'[i].status = "error"
        /\ i \in DOMAIN calls => calls[i].status = "inflight"}

\* C22: when the generation call of a command fails, the command shows one
\* error notification that contains the error's message and changes nothing
\* else: no document edit, the same tree of generated files, the same
\* commands; and the tree changes only to the tree parsed from the result
\* of a generation that succeeded and was not cancelled
C22_FailedCommandLeavesState ==
    [][/\ \A i \in FailingNow :
             /\ Len(shown') = Len(shown) + 1
             /\ shown'[Len(shown')].kind = "error"
             /\ includes(shown'[Len(shown')].text, calls'[i].error)
             /\ docLines' = docLines
             /\ generatedFiles' = generatedFiles
             /\ registered' = registered
       /\ generatedFiles' # generatedFiles
          => \E i \in DOMAIN calls :
                /\ calls[i].caller.kind = "project" /\ calls[i].status = "inflight"
                /\ calls'[i].status = "ok" /\ i \notin progressCancelled
                /\ generatedFiles' = parseGeneratedProject(calls'[i].result)]_vars

\* a generate-project run has failed and shown its notification after an
\* earlier run had built a tree, which is still there
C22_Witness ==
    \E i, j \in DOMAIN calls :
        /\ i < j
        /\ calls[i].caller.kind = "project" /\ calls[i].status = "ok"
        /\ calls[j].caller.kind = "project" /\ calls[j].status = "error"
        /\ generatedFiles # <<>>
        /\ generatedFiles = parseGeneratedProject(calls[i].result)
        /\ \E n \in DOMAIN shown :
              shown[n] = ErrorNote("Error generating project: ", calls[j].error)

\* C30: a generateProject run that succeeds, the first as well as any later
\* one, surfaces no error notification
C30_LaterSuccessShowsNoError ==
    [][\A i \in DOMAIN calls :
          (/\ calls[i].caller.kind = "project" /\ calls[i].status = "inflight"
           /\ calls'[i].status = "ok")
          => \A n \in DOMAIN shown' : n > Len(shown) => shown'[n].kind # "error"]_vars


\* C23: for a raw output that is a fenced block around code, the cleaned
\* result contains that code: only the fence markers are removed
C23_FencedCodeKept ==
    (arg # <<>> /\ ret # <<>>)
    => \A code \in FencedCode :
          arg[1].completion = Fence \o code \o Fence => includes(ret[1], Chars("5;"))

\* ---------------------------------------------------------------------------
\* C24: no generateResponse call is ever made for a request whose cursor is
\* in the middle of an identifier or whose line is blank on both sides of the
\* cursor, whatever the cache holds
C24_IneligibleNoCall ==
    \A k \in DOMAIN calls :
        calls[k].caller.kind = "inline"
        => (~midWord(req[calls[k].caller.id].doc) /\ ~blankLine(req[calls[k].caller.id].doc))

\* the timers of a mid-identifier request and of a blank-line request have
\* fired, generateCompletion ran without throwing, and no call was made
C24_Witness ==
    /\ \E r \in DOMAIN req : Ran(r) /\ req[r].pc = "resolved" /\ midWord(req[r].doc)
                             /\ InlineCalls(r) = {}
    /\ \E r \in DOMAIN req : Ran(r) /\ req[r].pc = "resolved" /\ blankLine(req[r].doc)
                             /\ InlineCalls(r) = {}

\* the promise of request r is settled
Settled(r) == r.pc \in {"resolved", "rejected"}

\* C27: a request whose pending timer is cancelled by a later enabled
\* trigger stays unsettled for ever; a request that got a timer settles only
\* in its timer callback (at once, or when the call the callback made
\* returns), always by resolving, and once settled it does not change
C27_ClearedNeverSettles ==
    [][/\ (Len(req') = Len(req) + 1 /\ req'[Len(req')].enabled)
          => \A r \in DOMAIN req :
                req[r].pc = "timer" => (req'[r].pc = "cleared" /\ req'[r].result = <<>>)
       /\ \A r \in DOMAIN req :
             /\ (req[r].pc = "cleared" \/ Settled(req[r])) => req'[r] = req[r]
             /\ req'[r].pc # "rejected"
             /\ (~Settled(req[r]) /\ Settled(req'[r]))
                => \/ req[r].pc = "timer" /\ elapsed >= DebounceMs
                   \/ req[r].pc = "inflight"]_vars

\* a timer was cancelled by the next trigger, whose own timer fired and whose
\* promise resolved with a suggestion
C27_Witness ==
    \E i, j \in DOMAIN req :
        /\ NextTrigger(i, j)
        /\ req[i].pc = "cleared" /\ req[i].result = <<>>
        /\ req[j].pc = "resolved" /\ req[j].result # <<>>

\* this step is the callback of request r running generateCompletion on a
\* blank line while the cache holds an entry for its fingerprint
BlankLineHit(r) ==
    /\ CallbackRuns(r) /\ ~req'[r].threw
    /\ blankLine(req[r].doc)
    /\ cacheHas(cache, cacheKey(req[r].doc))

HashLanguages == {"python", "ruby"}

OpenMarker(language) ==
    IF language \in SlashLanguages THEN Chars("//")
    ELSE IF language \in HashLanguages THEN Chars("#")
    ELSE IF language = "html" THEN Chars("<!--")
    ELSE IF language = "css" THEN Chars("/*")
    ELSE <<>>

CloseMarker(language) ==
    IF language = "html" THEN Chars("-->")
    ELSE IF language = "css" THEN Chars("*/")
    ELSE <<>>

\* the positions right after an opening marker that leave at least one
\* character before the closing marker at the end of the line
BodyStarts(lineText, language) ==
    LET open == OpenMarker(language)
        close == CloseMarker(language)
    IN  {b \in 1..Len(lineText) :
            /\ b > Len(open) /\ SubSeq(lineText, b - Len(open), b - 1) = open
            /\ b <= Len(lineText) - Len(close)
            /\ SubSeq(lineText, Len(lineText) - Len(close) + 1, Len(lineText)) = close}

\* the comment body: from the first such position to the closing marker
CommentBody(lineText, language) ==
    LET starts == BodyStarts(lineText, language)
        b == CHOOSE x \in starts : \A y \in starts : x <= y
    IN  trim(SubSeq(lineText, b, Len(lineText) - Len(CloseMarker(language))))

\* the body contains a keyword of the fixed set, letter case apart
MentionsKeyword(body) ==
    \E k \in DOMAIN codeGenKeywords :
        \E i \in 1..Len(body) :
            \E j \in i..Len(body) :
                toLowerCase(SubSeq(body, i, j)) = toLowerCase(Chars(codeGenKeywords[k]))

NextWithdraw ==
    \/ \E doc \in Docs : Trigger(doc)
    \/ Tick
    \/ \E r \in DOMAIN req : CancelToken(r)
    \/ \E r \in DOMAIN req : TimerFire(r, TRUE)
    \/ \E i \in DOMAIN calls : PollWake(i)
    \/ \E i \in DOMAIN calls : \E reply \in Replies :
          PendingBounded(calls[i], reply) /\ NetReply(i, reply)

SpecWithdraw == InitPoll /\ [][NextWithdraw]_vars

\* the caller of call i has withdrawn: the token of its inline request is
\* cancelled
Withdrawn(i) ==
    calls[i].caller.kind = "inline" /\ req[calls[i].caller.id].cancelled

\* C26: once the caller of a generation that the replicate adapter is
\* polling for has withdrawn, the adapter sends no further status check
C26_WithdrawalStopsPolling ==
    [][\A i \in DOMAIN calls :
          (calls[i].provider = "replicate" /\ calls[i].status = "inflight" /\ Withdrawn(i))
          => calls'[i].net = calls[i].net]_vars

\* ---------------------------------------------------------------------------
\* this step is the chat handler taking a sendMessage event
HandledNow == arg # <<>> /\ arg' = <<>>

\* what the handler of a sendMessage event with a text that is not blank
\* posts and records before it waits for the generation
SentPosts ==
    IF HandledNow /\ trim(arg[1].text) # <<>>
    THEN <<[type |-> "userMessage", content |-> arg[1].text],
           [type |-> "thinking", thinking |-> TRUE]>>
    ELSE <<>>

SentHistory ==
    IF HandledNow /\ trim(arg[1].text) # <<>>
    THEN <<[role |-> "user", content |-> arg[1].text]>>
    ELSE <<>>

\* the chat generations that return or fail in this step
ChatSettlingNow ==
    {i \in DOMAIN calls' :
        /\ calls'[i].caller.kind = "chat"
        /\ calls'[i].status # "inflight"
        /\ i \in DOMAIN calls => calls[i].status = "inflight"}

\* C29: the handler of a sendMessage event whose text is not blank records
\* the user message and posts userMessage, then thinking true; when its
\* generation returns or fails it posts thinking false and then exactly one
\* of assistantMessage and error, adding the assistant entry to the history
\* only on success; nothing else is posted; an event with a blank text
\* changes neither the history nor what is posted and makes no call
C29_ChatMessageProtocol ==
    [][/\ (HandledNow /\ trim(arg[1].text) = <<>>)
          => (chatHistory' = chatHistory /\ posted' = posted /\ calls' = calls)
       /\ (HandledNow /\ trim(arg[1].text) # <<>>)
          => (Len(calls') = Len(calls) + 1 /\ calls'[Len(calls')].prompt.text = arg[1].text)
       /\ ChatSettlingNow = {}
          => (posted' = posted \o SentPosts /\ chatHistory' = chatHistory \o SentHistory)
       /\ \A i \in ChatSettlingNow :
             IF calls'[i].status = "ok"
             THEN /\ posted' = posted \o SentPosts
                               \o <<[type |-> "thinking", thinking |-> FALSE],
                                    [type |-> "assistantMessage", content |-> calls'[i].result]>>
                  /\ chatHistory' = chatHistory \o SentHistory
                                    \o <<[role |-> "assistant", content |-> calls'[i].result]>>
             ELSE /\ posted' = posted \o SentPosts
                               \o <<[type |-> "thinking", thinking |-> FALSE],
                                    [type |-> "error", content |-> <<"Error: ">> \o calls'[i].error]>>
                  /\ chatHistory' = chatHistory \o SentHistory]_vars

\* a message was answered and the generation of the next one failed: its
\* user entry is the last of the history, and the failure was posted after
\* thinking false
C29_Witness ==
    /\ arg = <<>>
    /\ Len(calls) = 2 /\ calls[1].status = "ok" /\ calls[2].status = "error"
    /\ chatHistory = <<[role |-> "user", content |-> calls[1].prompt.text],
                       [role |-> "assistant", content |-> calls[1].result],
                       [role |-> "user", content |-> calls[2].prompt.text]>>
    /\ Len(posted) = 8
    /\ posted[7] = [type |-> "thinking", thinking |-> FALSE]
    /\ posted[8].type = "error"

====
